---- MODULE Spec2Model ----
(***************************************************************************)
(* TinyEKF (src/tinyekf.hpp): the engine's buffers, its constructor and    *)
(* one call of update(Z), statement by statement.  A double is modelled as *)
(* an exact rational <<num, den>>; a matrix as a sequence of rows whose    *)
(* lengths are the shape the constructor allocated.  The kernel of         *)
(* linalg.hpp (newmat, matmul, transpose, add, invert, dump) is not among  *)
(* the sources and is modelled from its description.                       *)
(***************************************************************************)
EXTENDS Integers, Sequences, FiniteSets, TLC

\* Largest state dimension n and measurement dimension m explored.
MaxDim == 2

\* Largest entry of the matrices the caller and the callbacks supply.
MaxVal == 1

(***************************************************************************)
(* Exact arithmetic on doubles: normalised fractions.                      *)
(***************************************************************************)
Abs(k) == IF k < 0 THEN -k ELSE k

RECURSIVE Gcd(_, _)
Gcd(a, b) == IF b = 0 THEN a ELSE Gcd(b, a % b)

Norm(p, q) ==
    LET s == IF q < 0 THEN -1 ELSE 1
        d == Gcd(Abs(p), Abs(q))
    IN  IF p = 0 THEN <<0, 1>> ELSE <<(s * p) \div d, (s * q) \div d>>

Num(k) == <<k, 1>>
Zero == <<0, 1>>
One == <<1, 1>>

RAdd(x, y) == IF x[2] = 1 /\ y[2] = 1 THEN <<x[1] + y[1], 1>>
              ELSE Norm(x[1] * y[2] + y[1] * x[2], x[2] * y[2])
RSub(x, y) == RAdd(x, <<-y[1], y[2]>>)
RMul(x, y) == IF x[2] = 1 /\ y[2] = 1 THEN <<x[1] * y[1], 1>>
              ELSE Norm(x[1] * y[1], x[2] * y[2])
RDiv(x, y) == Norm(x[1] * y[2], x[2] * y[1])
RAbs(x) == <<Abs(x[1]), x[2]>>
RLess(x, y) == x[1] * y[2] < y[1] * x[2]

RECURSIVE RSum(_)
RSum(s) == IF s = <<>> THEN Zero ELSE RAdd(Head(s), RSum(Tail(s)))

(***************************************************************************)
(* Matrix kernel (linalg.hpp).                                             *)
(***************************************************************************)
Rows(A) == Len(A)
Cols(A) == Len(A[1])

\* newmat(rows, cols): a zero-initialised rows x cols matrix.
NewMat(r, c) == [i \in 1..r |-> [j \in 1..c |-> Zero]]

\* A read of a[i][j]: the element when it lies in the allocated buffer, and
\* otherwise whatever the memory beyond it holds (g).
Rd(a, i, j, g) == IF i \in 1..Rows(a) /\ j \in 1..Cols(a) THEN a[i][j] ELSE g

\* The value matmul stores at c[i][j].
MatMulCell(a, b, i, j, acols, g) ==
    RSum([l \in 1..acols |-> RMul(Rd(a, i, l, g), Rd(b, l, j, g))])

\* matmul(a, b, c, arows, acols, bcols): c[i][j] = sum over l < acols of
\* a[i][l] * b[l][j], for i < arows and j < bcols.  The result is the part of
\* the stores that lands inside c; the rest of c keeps what it held.
MatMul(a, b, c, arows, acols, bcols, g) ==
    [i \in 1..Rows(c) |-> [j \in 1..Cols(c) |->
        IF i <= arows /\ j <= bcols THEN MatMulCell(a, b, i, j, acols, g)
        ELSE c[i][j]]]

\* matmul reads outside a or b, resp. stores outside c.
MatMulReadsOutside(a, b, arows, acols, bcols) ==
    arows > Rows(a) \/ acols > Cols(a) \/ acols > Rows(b) \/ bcols > Cols(b)
MatMulWritesOutside(c, arows, bcols) == arows > Rows(c) \/ bcols > Cols(c)

\* transpose(a, at, rows, cols): at[j][i] = a[i][j].
Transpose(a, at, rows, cols) ==
    [j \in 1..Rows(at) |-> [i \in 1..Cols(at) |->
        IF j <= cols /\ i <= rows THEN a[i][j] ELSE at[j][i]]]

\* add(a, b, rows, cols): a <- a + b, in place.
Add(a, b, rows, cols) ==
    [i \in 1..Rows(a) |-> [j \in 1..Cols(a) |->
        IF i <= rows /\ j <= cols THEN RAdd(a[i][j], b[i][j]) ELSE a[i][j]]]

\* The row at or below k whose entry in column k has the largest magnitude
\* (the first such row).
PivotRow(a, k, size) ==
    CHOOSE p \in k..size :
        /\ \A r \in k..size : ~RLess(RAbs(a[p][k]), RAbs(a[r][k]))
        /\ \A r \in k..(p - 1) : RLess(RAbs(a[r][k]), RAbs(a[p][k]))

SwapRows(a, k, p) ==
    [i \in 1..Len(a) |-> IF i = k THEN a[p] ELSE IF i = p THEN a[k] ELSE a[i]]

\* One Gauss-Jordan step on column k of the pair (a | b): scale row k by the
\* pivot, then clear column k in every other row.
Eliminate(a, k, size) ==
    LET piv == a[k][k]
        rowk == [j \in 1..size |-> RDiv(a[k][j], piv)]
    IN  [i \in 1..size |-> [j \in 1..size |->
            IF i = k THEN rowk[j]
            ELSE RSub(a[i][j], RMul(a[i][k], rowk[j]))]]

EliminateRhs(a, b, k, size) ==
    LET piv == a[k][k]
        rowk == [j \in 1..size |-> RDiv(b[k][j], piv)]
    IN  [i \in 1..size |-> [j \in 1..size |->
            IF i = k THEN rowk[j]
            ELSE RSub(b[i][j], RMul(a[i][k], rowk[j]))]]

RECURSIVE GaussJordan(_, _, _, _)
GaussJordan(a, b, k, size) ==
    IF k > size THEN [ok |-> TRUE, inv |-> b]
    ELSE LET p == PivotRow(a, k, size)
             a1 == SwapRows(a, k, p)
             b1 == SwapRows(b, k, p)
         IN  IF a1[k][k] = Zero THEN [ok |-> FALSE, inv |-> b]
             ELSE GaussJordan(Eliminate(a1, k, size),
                              EliminateRhs(a1, b1, k, size), k + 1, size)

Identity(size) == [i \in 1..size |-> [j \in 1..size |-> IF i = j THEN One ELSE Zero]]

\* invert(a, ainv, tmp, size): Gauss-Jordan elimination with row pivoting.
\* A pivot of magnitude below the threshold (exactly zero, in exact
\* arithmetic) is the failure SingularMatrixError, and ainv is then left with
\* the partially reduced right-hand side.
Invert(a, size) == GaussJordan(a, Identity(size), 1, size)

(***************************************************************************)
(* The engine's state.                                                     *)
(***************************************************************************)
VARIABLES
    n, m,               \* dimensions
    X, P, Q, R,         \* state, covariance, process and measurement noise
    G,                  \* Kalman gain
    Xp, fy, H, gXp,     \* outputs of the callbacks
    Ht, Pp_Ht, fy_P, fyt, Pp, H_Pp, H_Pp_Ht, inv,   \* temporary storage
    Z,                  \* update's argument
    pc,                 \* where the program is
    singular,           \* whether invert met a pivot below its threshold
    X0, P0, Q0, R0,     \* X, P, Q, R as update was entered
    XpF, gArg,          \* the Xp f produced; the Xp g was handed
    events,             \* what the current call has done, in order
    calls,              \* the kernel calls made, with the counts passed
    outside             \* whether a kernel call read or wrote outside a buffer

bufs == <<G, Xp, fy, H, gXp, Ht, Pp_Ht, fy_P, fyt, Pp, H_Pp, H_Pp_Ht, inv>>
hist == <<X0, P0, Q0, R0, XpF, gArg, events, calls, outside>>
vars == <<n, m, X, P, Q, R, bufs, Z, pc, singular, hist>>

\* What memory outside a buffer, or memory never written, may hold.
Garbage == {Zero, One}

Dims == 1..MaxDim
Vals == 0..MaxVal

ConstVec(len, v) == [i \in 1..len |-> Num(v)]

\* The r x c matrix with d on the diagonal, u above it and l below it.
BandMat(r, c, d, u, l) ==
    [i \in 1..r |-> [j \in 1..c |->
        Num(IF i = j THEN d ELSE IF j > i THEN u ELSE l)]]

\* What the caller stores and the callbacks return.
VecChoices(len) == {ConstVec(len, v) : v \in Vals}
SymChoices(k) == {BandMat(k, k, d, o, o) : d, o \in Vals}
SquareChoices(k) == {BandMat(k, k, d, u, l) : d, u, l \in Vals}
HChoices(r, c) == {BandMat(r, c, d, o, o) : d, o \in Vals}

\* TinyEKF(n, m): the shape each buffer is allocated with (a vector of
\* length k as 1 x k).
Alloc(nn, mm) ==
    [ P |-> <<nn, nn>>, Q |-> <<nn, nn>>, R |-> <<mm, mm>>, G |-> <<nn, mm>>,
      H |-> <<mm, nn>>, fy |-> <<nn, nn>>,
      X |-> <<1, nn>>, Xp |-> <<1, nn>>, gXp |-> <<1, mm>>,
      Ht |-> <<nn, mm>>, Pp_Ht |-> <<nn, mm>>,
      fy_P |-> <<nn, nn>>, fyt |-> <<nn, nn>>, Pp |-> <<nn, nn>>,
      H_Pp |-> <<mm, nn>>, H_Pp_Ht |-> <<mm, mm>>,
      inv |-> <<mm, mm>>,
      tmp_n |-> <<1, nn>> ]

NewBuf(shape) == NewMat(shape[1], shape[2])

\* TinyEKF(n, m): every matrix from newmat, every vector from new double[]
\* (its elements hold whatever the memory held).
Init ==
    /\ n \in Dims /\ m \in Dims
    /\ P = NewBuf(Alloc(n, m).P) /\ Q = NewBuf(Alloc(n, m).Q)
    /\ R = NewBuf(Alloc(n, m).R) /\ G = NewBuf(Alloc(n, m).G)
    /\ H = NewBuf(Alloc(n, m).H) /\ fy = NewBuf(Alloc(n, m).fy)
    /\ \E g \in Garbage :
        /\ X = [i \in 1..Alloc(n, m).X[2] |-> g]
        /\ Xp = [i \in 1..Alloc(n, m).Xp[2] |-> g]
        /\ gXp = [i \in 1..Alloc(n, m).gXp[2] |-> g]
    /\ Ht = NewBuf(Alloc(n, m).Ht) /\ Pp_Ht = NewBuf(Alloc(n, m).Pp_Ht)
    /\ fy_P = NewBuf(Alloc(n, m).fy_P) /\ fyt = NewBuf(Alloc(n, m).fyt)
    /\ Pp = NewBuf(Alloc(n, m).Pp)
    /\ H_Pp = NewBuf(Alloc(n, m).H_Pp)
    /\ H_Pp_Ht = NewBuf(Alloc(n, m).H_Pp_Ht)
    /\ inv = NewBuf(Alloc(n, m).inv)
    /\ Z = <<>>
    /\ pc = "constructed"
    /\ singular = FALSE
    /\ X0 = X /\ P0 = P /\ Q0 = Q /\ R0 = R
    /\ XpF = <<>> /\ gArg = <<>>
    /\ events = <<>> /\ calls = <<>> /\ outside = FALSE

\* The length of the scratch vector tmp_n.
TmpLen == Alloc(n, m).tmp_n[2]

\* The derived class fills in the protected members before the first update.
Configure ==
    /\ pc = "constructed"
    /\ X' \in VecChoices(n)
    /\ P' \in SymChoices(n)
    /\ Q' \in SymChoices(n)
    /\ R' \in SymChoices(m)
    /\ pc' = "ready"
    /\ UNCHANGED <<n, m, bufs, Z, singular, hist>>

\* update(Z) is entered.
UpdateBegin ==
    /\ pc = "ready"
    /\ Z' \in VecChoices(m)
    /\ X0' = X /\ P0' = P /\ Q0' = Q /\ R0' = R
    /\ events' = <<>>
    /\ pc' = "entered"
    /\ UNCHANGED <<n, m, X, P, Q, R, bufs, singular, XpF, gArg, calls, outside>>

\* this->f(this->Xp, this->fy)
CallF ==
    /\ pc = "entered"
    /\ Xp' \in VecChoices(n)
    /\ fy' \in SquareChoices(n)
    /\ XpF' = Xp'
    /\ events' = Append(events, "f")
    /\ pc' = "f_done"
    /\ UNCHANGED <<n, m, X, P, Q, R, G, H, gXp, Ht, Pp_Ht, fy_P, fyt, Pp,
                   H_Pp, H_Pp_Ht, inv, Z, singular, X0, P0, Q0, R0, gArg,
                   calls, outside>>

\* this->g(this->Xp, this->gXp, this->H)
CallG ==
    /\ pc = "f_done"
    /\ gArg' = Xp
    /\ gXp' \in VecChoices(m)
    /\ H' \in HChoices(m, n)
    /\ events' = Append(events, "g")
    /\ pc' = "g_done"
    /\ UNCHANGED <<n, m, X, P, Q, R, G, Xp, fy, Ht, Pp_Ht, fy_P, fyt, Pp,
                   H_Pp, H_Pp_Ht, inv, Z, singular, X0, P0, Q0, R0, XpF,
                   calls, outside>>

\* A kernel call as made: the buffers named, the counts passed.
MatMulCall(line, a, b, c, arows, acols, bcols) ==
    [op |-> "matmul", line |-> line, args |-> <<a, b, c>>,
     counts |-> <<arows, acols, bcols>>]
TransposeCall(line, a, at, rows, cols) ==
    [op |-> "transpose", line |-> line, args |-> <<a, at>>,
     counts |-> <<rows, cols>>]
AddCall(line, a, b, rows, cols) ==
    [op |-> "add", line |-> line, args |-> <<a, b>>, counts |-> <<rows, cols>>]
InvertCall(line, a, ainv, tmp, size) ==
    [op |-> "invert", line |-> line, args |-> <<a, ainv, tmp>>,
     counts |-> <<size>>]

\* Step 4: the four calls that leave fy * P * fy' + Q in Pp.
CovFyP == MatMul(fy, P, fy_P, n, n, n, Zero)
CovFyt == Transpose(fy, fyt, n, n)
\* Line 179 with fy passed where fyt belongs.
CovPp_NoTranspose(fyP, fyT) == Add(MatMul(fyP, fy, Pp, n, n, n, Zero), Q, n, n)
CovPp(fyP, fyT) == Add(MatMul(fyP, fyT, Pp, n, n, n, Zero), Q, n, n)
CovCalls ==
    << MatMulCall(177, "fy", "P", "fy_P", n, n, n),
       TransposeCall(178, "fy", "fyt", n, n),
       MatMulCall(179, "fy_P", "fyt", "Pp", n, n, n),
       AddCall(180, "Pp", "Q", n, n) >>

PropagateCov ==
    /\ pc = "g_done"
    /\ \E fyP \in {CovFyP}, fyT \in {CovFyt} :
        /\ fy_P' = fyP
        /\ fyt' = fyT
        /\ Pp' = CovPp(fyP, fyT)
    /\ events' = Append(events, "cov")
    /\ calls' = calls \o CovCalls
    /\ pc' = "cov_done"
    /\ UNCHANGED <<n, m, X, P, Q, R, G, Xp, fy, H, gXp, Ht, Pp_Ht, H_Pp,
                   H_Pp_Ht, inv, Z, singular, X0, P0, Q0, R0, XpF, gArg,
                   outside>>

\* Step 5: the seven calls that leave the gain in G.  g is what the reads
\* outside a buffer return.
GainHt == Transpose(H, Ht, m, n)
GainPpHt(ht, g) == MatMul(Pp, ht, Pp_Ht, n, m, n, g)
GainHPp(g) == MatMul(H, Pp, H_Pp, m, n, n, g)
GainHPpHt(hpp, ht, g) == MatMul(hpp, ht, H_Pp_Ht, m, m, n, g)
GainS(hppht) == Add(hppht, R, m, m)
GainInv(s) == Invert(s, m)
GainG(ppht, sinv, g) == MatMul(ppht, sinv, G, n, m, m, g)
GainCalls ==
    << TransposeCall(183, "H", "Ht", m, n),
       MatMulCall(184, "Pp", "Ht", "Pp_Ht", n, m, n),
       MatMulCall(185, "H", "Pp", "H_Pp", m, n, n),
       MatMulCall(186, "H_Pp", "Ht", "H_Pp_Ht", m, m, n),
       AddCall(187, "H_Pp_Ht", "R", m, m),
       InvertCall(188, "H_Pp_Ht", "inv", "tmp_n", m),
       MatMulCall(189, "Pp_Ht", "inv", "G", n, m, m) >>

\* Whether step 5 reads, resp. stores, outside a buffer: matmul with the
\* counts it is passed, invert with its size-m scratch in tmp_n.
GainReadsOutside ==
    \/ MatMulReadsOutside(Pp, Ht, n, m, n)
    \/ MatMulReadsOutside(H, Pp, m, n, n)
    \/ MatMulReadsOutside(H_Pp, Ht, m, m, n)
    \/ MatMulReadsOutside(Pp_Ht, inv, n, m, m)
GainWritesOutside ==
    \/ MatMulWritesOutside(Pp_Ht, n, n)
    \/ MatMulWritesOutside(H_Pp, m, n)
    \/ MatMulWritesOutside(H_Pp_Ht, m, n)
    \/ MatMulWritesOutside(G, n, m)
    \/ m > TmpLen

\* The first value stored outside a buffer: by line 184 past the end of row
\* 0 of Pp_Ht, or else by invert past the end of tmp_n.
GainStray(ht, s, g) ==
    IF MatMulWritesOutside(Pp_Ht, n, n)
    THEN MatMulCell(Pp, ht, 1, Cols(Pp_Ht) + 1, m, g)
    ELSE Rd(s, 1, TmpLen + 1, g)

\* Where a store outside a buffer lands: in nothing the engine reads
\* ("none"), or on the first element of a row of P or of Q.
Hits == {<<"none", 1>>} \cup ({"P", "Q"} \X (1..n))
Stray(A, name, hit, v) ==
    IF hit[1] = name THEN [A EXCEPT ![hit[2]][1] = v] ELSE A

ComputeGain ==
    /\ pc = "cov_done"
    /\ \E g \in Garbage, hit \in Hits :
        /\ hit[1] # "none" => GainWritesOutside
        /\ \E ht \in {GainHt}, hpp \in {GainHPp(g)} :
           \E ppht \in {GainPpHt(ht, g)}, hppht \in {GainHPpHt(hpp, ht, g)} :
           \E s \in {GainS(hppht)} :
           \E r \in {GainInv(s)}, v \in {GainStray(ht, s, g)} :
            /\ Ht' = ht
            /\ Pp_Ht' = ppht
            /\ H_Pp' = hpp
            /\ H_Pp_Ht' = s
            /\ inv' = r.inv
            /\ singular' = ~r.ok
            /\ G' = GainG(ppht, r.inv, g)
            /\ P' = Stray(P, "P", hit, v)
            /\ Q' = Stray(Q, "Q", hit, v)
    /\ outside' = (GainReadsOutside \/ GainWritesOutside)
    /\ events' = Append(events, "gain")
    /\ calls' = calls \o GainCalls
    /\ pc' = "gain_done"
    /\ UNCHANGED <<n, m, X, R, Xp, fy, H, gXp, fy_P, fyt, Pp, Z,
                   X0, P0, Q0, R0, XpF, gArg>>

\* A read or store outside a buffer may instead end the process (SIGSEGV).
Segfault ==
    /\ pc = "cov_done"
    /\ GainReadsOutside \/ GainWritesOutside
    /\ outside' = TRUE
    /\ calls' = calls \o GainCalls
    /\ pc' = "crashed"
    /\ UNCHANGED <<n, m, X, P, Q, R, bufs, Z, singular,
                   X0, P0, Q0, R0, XpF, gArg, events>>

\* dump(this->G, this->n, this->m); exit(0);
DumpExit ==
    /\ pc = "gain_done"
    /\ events' = Append(events, "dump")
    /\ pc' = "exited"
    /\ UNCHANGED <<n, m, X, P, Q, R, bufs, Z, singular,
                   X0, P0, Q0, R0, XpF, gArg, calls, outside>>

Next ==
    \/ Configure \/ UpdateBegin \/ CallF \/ CallG
    \/ PropagateCov \/ ComputeGain \/ Segfault \/ DumpExit

Spec == Init /\ [][Next]_vars

\* Step 4 on its own: update has run its two callbacks (line 176 is next)
\* and fy, P and Q are any of the square matrices.
InitCov ==
    /\ n \in Dims /\ m \in Dims
    /\ fy \in SquareChoices(n) /\ P \in SquareChoices(n)
    /\ Q \in SquareChoices(n)
    /\ R = BandMat(m, m, 1, 0, 0)
    /\ G = NewBuf(Alloc(n, m).G)
    /\ H = BandMat(m, n, 1, 0, 0)
    /\ X = ConstVec(n, 0) /\ Xp = ConstVec(n, 0) /\ gXp = ConstVec(m, 0)
    /\ Ht = NewBuf(Alloc(n, m).Ht) /\ Pp_Ht = NewBuf(Alloc(n, m).Pp_Ht)
    /\ fy_P = NewBuf(Alloc(n, m).fy_P) /\ fyt = NewBuf(Alloc(n, m).fyt)
    /\ Pp = NewBuf(Alloc(n, m).Pp)
    /\ H_Pp = NewBuf(Alloc(n, m).H_Pp)
    /\ H_Pp_Ht = NewBuf(Alloc(n, m).H_Pp_Ht)
    /\ inv = NewBuf(Alloc(n, m).inv)
    /\ Z = ConstVec(m, 0)
    /\ pc = "g_done"
    /\ singular = FALSE
    /\ X0 = X /\ P0 = P /\ Q0 = Q /\ R0 = R
    /\ XpF = Xp /\ gArg = Xp
    /\ events = <<"f", "g">> /\ calls = <<>> /\ outside = FALSE

NextCov == PropagateCov

SpecCov == InitCov /\ [][NextCov]_vars

(***************************************************************************)
(* Reference algebra: the textbook operations on whole matrices, with no   *)
(* counts passed and no destination buffer.                                *)
(***************************************************************************)
RefT(A) == [j \in 1..Cols(A) |-> [i \in 1..Rows(A) |-> A[i][j]]]
RefMul(A, B) ==
    [i \in 1..Rows(A) |-> [j \in 1..Cols(B) |->
        RSum([l \in 1..Cols(A) |-> RMul(A[i][l], B[l][j])])]]
RefAdd(A, B) == [i \in 1..Rows(A) |-> [j \in 1..Cols(A) |-> RAdd(A[i][j], B[i][j])]]
RefSub(A, B) == [i \in 1..Rows(A) |-> [j \in 1..Cols(A) |-> RSub(A[i][j], B[i][j])]]
IsSymmetric(A) == \A i, j \in 1..Rows(A) : A[i][j] = A[j][i]

\* (F A F' + B)[i][j] as one double sum.
RefCov(F, A, B) ==
    [i \in 1..Rows(A) |-> [j \in 1..Rows(A) |->
        RAdd(RSum([k \in 1..(Rows(A) * Rows(A)) |->
                LET r == ((k - 1) \div Rows(A)) + 1
                    c == ((k - 1) % Rows(A)) + 1
                IN  RMul(RMul(F[i][r], A[r][c]), F[j][c])]),
             B[i][j])]]

\* A without row 1 and column j.
Minor(A, j) ==
    [r \in 1..(Rows(A) - 1) |-> [c \in 1..(Rows(A) - 1) |->
        A[r + 1][IF c < j THEN c ELSE c + 1]]]

\* The determinant, by expansion along the first row.
RECURSIVE Det(_)
Det(A) ==
    IF Rows(A) = 1 THEN A[1][1]
    ELSE RSum([j \in 1..Rows(A) |->
            RMul(RMul(Num(IF j % 2 = 1 THEN 1 ELSE -1), A[1][j]),
                 Det(Minor(A, j)))])

\* The innovation covariance of the current call, H Pp H' + R.
RefS == RefAdd(RefMul(RefMul(H, Pp), RefT(H)), R)

\* The corrected state Xp + G (Z - gXp) and covariance (I - G H) Pp.
RefX ==
    [i \in 1..n |->
        RAdd(Xp[i], RSum([j \in 1..m |-> RMul(G[i][j], RSub(Z[j], gXp[j]))]))]
RefP == RefMul(RefSub(Identity(n), RefMul(G, H)), Pp)

\* The call has computed its gain; the call is over.
GainComputed == pc \in {"gain_done", "exited"}
CallOver == pc = "exited"

\* A kernel call's counts against the shapes the constructor allocated.
CallOk(c) ==
    LET shape == Alloc(n, m)
        k == c.counts
        b == c.args
    IN  CASE c.op = "matmul" ->
                /\ shape[b[1]] = <<k[1], k[2]>>
                /\ shape[b[2]] = <<k[2], k[3]>>
                /\ shape[b[3]] = <<k[1], k[3]>>
          [] c.op = "transpose" ->
                /\ shape[b[1]] = <<k[1], k[2]>>
                /\ shape[b[2]] = <<k[2], k[1]>>
          [] c.op = "add" ->
                /\ shape[b[1]] = <<k[1], k[2]>>
                /\ shape[b[2]] = <<k[1], k[2]>>
          [] c.op = "invert" ->
                /\ shape[b[1]] = <<k[1], k[1]>>
                /\ shape[b[2]] = <<k[1], k[1]>>
                /\ shape[b[3]][2] >= k[1]

\* How the call ended, as its caller sees it.
Outcome ==
    CASE pc = "exited" -> "exit(0)"
      [] pc = "crashed" -> "signal"
      [] OTHER -> "running"

Count(seq, e) == Cardinality({i \in 1..Len(seq) : seq[i] = e})
Index(seq, e) == CHOOSE i \in 1..Len(seq) : seq[i] = e

(***************************************************************************)
(* The claims.                                                             *)
(***************************************************************************)

\* C1: update returns control to its caller on every input; neither update
\* nor the dump it invokes ends the host process.  Stated for the way out
\* the code takes on every input: the process is never ended by exit.
C1_UpdateReturnsToCaller == pc # "exited"

\* C2: after a call of update whose inversion succeeded, the stored state
\* is X = Xp + G (Z - gXp), with the Xp, gXp and G of that call.
C2_StateCorrected == (CallOver /\ ~singular) => X = RefX

\* C3: after a call of update whose inversion succeeded, the stored
\* covariance is P = (I - G H) Pp, with the Pp, H and G of that call.
C3_CovarianceCorrected == (CallOver /\ ~singular) => P = RefP

\* C4: when S = H Pp H' + R is singular, the call ends in the outcome
\* SingularMatrixError, X and P are what they were before the call, and no
\* gain has been stored in G.
C4_SingularRejected ==
    (CallOver /\ Det(RefS) = Zero) =>
        /\ Outcome = "SingularMatrixError"
        /\ X = X0 /\ P = P0
        /\ G = NewBuf(Alloc(n, m).G)

\* C5: the predicted covariance step 4 leaves in Pp is fy P fy' + Q, for the
\* fy of the process callback and the stored P and Q.
C5_PredictedCovariance == pc = "cov_done" => Pp = RefCov(fy, P, Q)

\* C5 witness: step 4 has run on a fy that is not symmetric and a P and Q
\* that are not zero, and Pp is neither Q nor P.
C5_Witness ==
    /\ pc = "cov_done" /\ n >= 2
    /\ ~IsSymmetric(fy) /\ ~IsSymmetric(P)
    /\ Q # NewMat(n, n) /\ Pp # Q /\ Pp # P /\ ~IsSymmetric(Pp)

\* C6: in every call where S = H Pp H' + R is invertible, the gain left in G
\* satisfies G S = Pp H'.
C6_GainEquation ==
    (GainComputed /\ Det(RefS) # Zero) => RefMul(G, RefS) = RefMul(Pp, RefT(H))

C8_CountsMatchShapes ==
    /\ \A i \in 1..Len(calls) : CallOk(calls[i])
    /\ ~outside

\* C9: in each call f runs exactly once and g exactly once, f before g, g is
\* handed the Xp f produced, both end before the covariance and gain
\* computations, and the call performs one predict+correct cycle: the
\* covariance and gain computations and then the correction, once each.
C9_OneCyclePerCall ==
    CallOver =>
        /\ Count(events, "f") = 1 /\ Count(events, "g") = 1
        /\ Index(events, "f") < Index(events, "g")
        /\ gArg = XpF
        /\ Count(events, "cov") = 1 /\ Count(events, "gain") = 1
        /\ Index(events, "g") < Index(events, "cov")
        /\ Index(events, "cov") < Index(events, "gain")
        /\ Count(events, "correct") = 1

====
